---- MODULE Spec2Model ----
(***************************************************************************)
(* Model of tools/fips.py: the FIPS place-code lookup builder (build), the *)
(* dataset validator (validate) and the safe normaliser (fix).             *)
(*                                                                         *)
(* Strings that the program inspects character by character (FIPS codes,   *)
(* country labels) are sequences of one-character strings.  Strings the    *)
(* program only compares or copies (city, state abbreviation, place name)  *)
(* are TLA+ strings.  A file is modelled by the table pandas reads from it.*)
(***************************************************************************)
EXTENDS Integers, Sequences, FiniteSets, TLC

VARIABLES
    x,          \* NormSpec: the argument handed to normalize_fips_7
    result,     \* NormSpec: what normalize_fips_7 returned for it
    files,      \* DataSpec: dataset CSV files on disk, by path
    lookup,     \* DataSpec: the lookup CSV given to validate
    lastFix,    \* DataSpec: the latest fix run (arguments, input as read, count)
    report,     \* DataSpec: the output of validate when it was the latest command
    remote,     \* BuildSpec: the Gazetteer file served for each state FIPS
    cache,      \* BuildSpec: workdir copies of the fetched files
    out,        \* BuildSpec: the lookup CSV written by build
    manifest,   \* BuildSpec: the manifest JSON written beside it
    run,        \* BuildSpec: the latest build run (arguments, outcome)
    prev        \* BuildSpec: the build run that completed before the latest one

vars == <<x, result, files, lookup, lastFix, report,
          remote, cache, out, manifest, run, prev>>

normVars == <<x, result>>
dataVars == <<files, lookup, lastFix, report>>
buildVars == <<remote, cache, out, manifest, run, prev>>

-----------------------------------------------------------------------------
(* Bounds *)

\* longest argument tried on normalize_fips_7
MaxLen == 8

\* characters the arguments of normalize_fips_7 are made of
Alphabet == {"0", "4", "A"}

\* most rows in a dataset CSV
MaxRows == 2

-----------------------------------------------------------------------------
(* Characters and strings *)

Digits == {"0", "1", "2", "3", "4", "5", "6", "7", "8", "9"}

\* code-point order of the characters the model uses
CharOrder == <<"0", "1", "2", "3", "4", "5", "6", "7", "8", "9",
               "A", "B", "C", "D", "S", "U", "a", "c", "s", "u">>

(* str.isdigit(): non-empty and every character a digit *)
isdigit(s) == Len(s) > 0 /\ \A i \in 1..Len(s) : s[i] \in Digits

(* str.zfill(width): zeros on the left, after a leading sign *)
RECURSIVE zfill(_, _)
zfill(s, width) ==
    IF Len(s) >= width THEN s
    ELSE IF Len(s) > 0 /\ s[1] \in {"+", "-"}
         THEN <<s[1]>> \o zfill(Tail(s), width - 1)
         ELSE zfill(<<"0">> \o s, width)

(* re.fullmatch(r"\d{7}", s) *)
fullmatch7(s) == Len(s) = 7 /\ \A i \in 1..7 : s[i] \in Digits

(* all sequences over a set, up to a length *)
RECURSIVE SeqsUpTo(_, _)
SeqsUpTo(chars, n) ==
    IF n = 0 THEN {<<>>}
    ELSE LET shorter == SeqsUpTo(chars, n - 1)
         IN  shorter \cup {Append(s, c) : s \in {t \in shorter : Len(t) = n - 1}, c \in chars}

-----------------------------------------------------------------------------
(* normalize_fips_7 *)

\* variant: pads without testing isdigit
normalize_fips_7_nodigitcheck(s) ==
    IF Len(s) < 7 THEN zfill(s, 7) ELSE s

\* variant: pads only strings shorter than 6
normalize_fips_7_upto5(s) ==
    IF isdigit(s) /\ Len(s) < 6 THEN zfill(s, 7) ELSE s

normalize_fips_7(s) ==
    IF isdigit(s) /\ Len(s) < 7 THEN zfill(s, 7) ELSE s

-----------------------------------------------------------------------------
(* Country labels and the state registry of the `us` package *)

(* str.upper() on the letters the model uses *)
UpperChar(c) ==
    CASE c = "a" -> "A"
      [] c = "c" -> "C"
      [] c = "s" -> "S"
      [] c = "u" -> "U"
      [] OTHER -> c

upper(s) == [i \in 1..Len(s) |-> UpperChar(s[i])]

\* us.STATES and us.TERRITORIES, cut down to one state and two territories
USStates == << [fips |-> <<"0", "1">>, abbr |-> "AL", name |-> "Alabama"] >>

USTerritories == << [fips |-> <<"6", "6">>, abbr |-> "GU", name |-> "Guam"],
                    [fips |-> <<"7", "2">>, abbr |-> "PR", name |-> "Puerto Rico"] >>

USAll == USStates \o USTerritories

expected_state_fips_prefix(state_abbr) ==
    LET hits == {i \in 1..Len(USAll) : USAll[i].abbr = state_abbr}
    IN  IF hits # {} /\ (USAll[CHOOSE i \in hits : TRUE]).fips # <<>>
        THEN zfill((USAll[CHOOSE i \in hits : TRUE]).fips, 2)
        ELSE <<>>

-----------------------------------------------------------------------------
(* Dataset and lookup CSV files *)

Absent == [exists |-> FALSE, rows |-> <<>>]

CsvFile(rows) == [exists |-> TRUE, rows |-> rows]

\* a missing value (NaN) and a present one, for a column read from CSV
NaN == [na |-> TRUE, v |-> <<>>]

Val(s) == [na |-> FALSE, v |-> s]

(* pd.read_csv(lookup_csv, dtype={"fips": str})[["fips"]]: the default NA
   handling turns an empty cell into NaN *)
read_lookup(file) ==
    [j \in 1..Len(file.rows) |->
        IF file.rows[j].fips = <<>> THEN NaN ELSE Val(file.rows[j].fips)]

(* pd.read_csv(dataset_csv, dtype={"census_fips_code": str},
   keep_default_na=False): every cell is kept as the text written *)
read_dataset(file) == file.rows

(* Series.str[:2] *)
first2(s) == IF Len(s) <= 2 THEN s ELSE SubSeq(s, 1, 2)

(* df["country"].astype(str).str.upper() == country_value.upper() *)
\* variant: compares the labels without upper()
country_mask_exact(row, country_value) == row.country = country_value

country_mask(row, country_value) == upper(row.country) = upper(country_value)

RECURSIVE TrueFrom(_, _)
\* the positions i..Len(mask) at which a boolean mask is true, ascending
TrueFrom(mask, i) ==
    IF i > Len(mask) THEN <<>>
    ELSE (IF mask[i] THEN <<i>> ELSE <<>>) \o TrueFrom(mask, i + 1)

(* df[mask]: the rows a boolean mask keeps, by position, in order *)
SelectIdx(mask) == TrueFrom(mask, 1)

-----------------------------------------------------------------------------
(* validate *)

(* us_df with valid_len, expected_prefix, state_prefix, state_prefix_ok;
   idx is the row's position in the dataset *)
us_rows(df, country_value) ==
    LET sel == SelectIdx([i \in 1..Len(df) |-> country_mask(df[i], country_value)])
    IN  [k \in 1..Len(sel) |->
            LET r == df[sel[k]]
            IN  [idx |-> sel[k], city |-> r.city, state |-> r.state,
                 census_fips_code |-> r.code,
                 valid_len |-> fullmatch7(r.code),
                 state_prefix_ok |->
                     expected_state_fips_prefix(r.state) = first2(r.code)]]

RECURSIVE merge_left(_, _, _)
(* us_df.merge(lookup, left_on="census_fips_code", right_on="fips",
   how="left"): one output row per matching lookup row, or one with fips NaN *)
merge_left(left, k, keys) ==
    IF k > Len(left) THEN <<>>
    ELSE LET r == left[k]
             hits == SelectIdx([j \in 1..Len(keys) |->
                        ~keys[j].na /\ keys[j].v = r.census_fips_code])
             joined == IF hits = <<>>
                       THEN << [row |-> r, fips |-> NaN] >>
                       ELSE [h \in 1..Len(hits) |-> [row |-> r, fips |-> keys[hits[h]]]]
         IN  joined \o merge_left(left, k + 1, keys)

(* us_df["place_known"] = us_df["fips"].notna() *)
place_known(merged) ==
    [k \in 1..Len(merged) |->
        [idx |-> merged[k].row.idx,
         city |-> merged[k].row.city,
         state |-> merged[k].row.state,
         census_fips_code |-> merged[k].row.census_fips_code,
         valid_len |-> merged[k].row.valid_len,
         state_prefix_ok |-> merged[k].row.state_prefix_ok,
         place_known |-> ~merged[k].fips.na]]

\* variant: leaves place_known out of the error filter
is_error_noplace(m) == ~m.valid_len \/ ~m.state_prefix_ok

is_error(m) == ~m.valid_len \/ ~m.state_prefix_ok \/ ~m.place_known

RECURSIVE error_rows(_, _)
(* us_df[~valid_len | ~state_prefix_ok | ~place_known] *)
error_rows(us_df, k) ==
    IF k > Len(us_df) THEN <<>>
    ELSE (IF is_error(us_df[k]) THEN <<us_df[k]>> ELSE <<>>) \o error_rows(us_df, k + 1)

validate_report(us_df, errors) ==
    [total |-> Len(us_df),
     found |-> Len(errors),
     table |-> errors,
     exit |-> IF errors # <<>> THEN 1 ELSE 0]

validate(dataset_file, lookup_file, country_value) ==
    LET us_df == place_known(merge_left(us_rows(read_dataset(dataset_file), country_value),
                                        1, read_lookup(lookup_file)))
    IN  validate_report(us_df, error_rows(us_df, 1))

-----------------------------------------------------------------------------
(* fix *)

(* df.loc[mask, "census_fips_code"].apply(normalize_fips_7) written back *)
fix_rows(df, country_value) ==
    [i \in 1..Len(df) |->
        IF country_mask(df[i], country_value)
        THEN [df[i] EXCEPT !.code = normalize_fips_7(df[i].code)]
        ELSE df[i]]

(* (before != after).sum() *)
fix_changed(df, fixed, country_value) ==
    Cardinality({i \in 1..Len(df) :
        country_mask(df[i], country_value) /\ df[i].code # fixed[i].code})

\* variant: also writes the rows back to the input path
fix_write_inplace(fs, dataset_csv, out_path, fixed) ==
    [fs EXCEPT ![out_path] = CsvFile(fixed), ![dataset_csv] = CsvFile(fixed)]

(* df.to_csv(out, index=False) *)
fix_write(fs, dataset_csv, out_path, fixed) ==
    [fs EXCEPT ![out_path] = CsvFile(fixed)]

-----------------------------------------------------------------------------
(* Sorting and hashing *)

CharIdx(c) == CHOOSE i \in 1..Len(CharOrder) : CharOrder[i] = c

RECURSIVE StrLess(_, _)
(* s < t for Python strings: by code point, a proper prefix first *)
StrLess(s, t) ==
    IF t = <<>> THEN FALSE
    ELSE IF s = <<>> THEN TRUE
    ELSE IF s[1] # t[1] THEN CharIdx(s[1]) < CharIdx(t[1])
    ELSE StrLess(Tail(s), Tail(t))

RECURSIVE InsertBy(_, _, _)
InsertBy(sorted, r, col) ==
    IF sorted = <<>> THEN <<r>>
    ELSE IF StrLess(r[col], Head(sorted)[col]) THEN <<r>> \o sorted
    ELSE <<Head(sorted)>> \o InsertBy(Tail(sorted), r, col)

RECURSIVE sort_values(_, _)
(* DataFrame.sort_values(col): ascending; the keys are unique wherever the
   program sorts, so the order of equal keys does not arise *)
sort_values(df, col) ==
    IF df = <<>> THEN <<>>
    ELSE InsertBy(sort_values(SubSeq(df, 1, Len(df) - 1), col), df[Len(df)], col)

(* sha256_file: a digest that differs whenever the content differs *)
sha256_file(file) == [sha256 |-> file]

-----------------------------------------------------------------------------
(* build_state_code_table *)

StateCode(rec) ==
    [state_fips |-> zfill(rec.fips, 2), state_abbr |-> rec.abbr, state_name |-> rec.name]

RECURSIVE drop_duplicate_rows(_)
(* DataFrame.drop_duplicates(): a row equal to an earlier row goes *)
drop_duplicate_rows(df) ==
    IF df = <<>> THEN <<>>
    ELSE LET init == drop_duplicate_rows(SubSeq(df, 1, Len(df) - 1))
             last == df[Len(df)]
         IN  IF \E i \in 1..Len(init) : init[i] = last THEN init ELSE Append(init, last)

build_state_code_table(include_pr, include_territories) ==
    LET states == [i \in 1..Len(USStates) |-> USStates[i].fips # <<>>]
        terrs == [i \in 1..Len(USTerritories) |->
                    /\ include_pr \/ include_territories
                    /\ USTerritories[i].fips # <<>>
                    /\ \/ USTerritories[i].abbr = "PR" /\ include_pr
                       \/ USTerritories[i].abbr # "PR" /\ include_territories]
        s == SelectIdx(states)
        t == SelectIdx(terrs)
        records == [i \in 1..Len(s) |-> StateCode(USStates[s[i]])]
                   \o [i \in 1..Len(t) |-> StateCode(USTerritories[t[i]])]
    IN  sort_values(drop_duplicate_rows(records), "state_fips")

-----------------------------------------------------------------------------
(* parse_gazetteer_file *)

\* a header cell is a sequence of tokens: a byte-order mark, a blank, or text
BOM == "BOM"

Blank == " "

RECURSIVE lstrip(_, _)
lstrip(cell, tokens) ==
    IF cell # <<>> /\ cell[1] \in tokens THEN lstrip(Tail(cell), tokens) ELSE cell

RECURSIVE rstrip(_, _)
rstrip(cell, tokens) ==
    IF cell # <<>> /\ cell[Len(cell)] \in tokens
    THEN rstrip(SubSeq(cell, 1, Len(cell) - 1), tokens) ELSE cell

(* c.strip().lstrip(BOM) *)
clean_column(c) == lstrip(rstrip(lstrip(c, {Blank}), {Blank}), {BOM})

RequiredColumns == {<<"USPS">>, <<"GEOID">>, <<"NAME">>}

ColumnAt(columns, name) == CHOOSE i \in 1..Len(columns) : columns[i] = name

\* variant: keeps any GEOID of seven characters
keep_len7(geoid) == Len(geoid) = 7

keep_geoid(geoid) == fullmatch7(geoid)

(* [raised: a required column is missing; rows: the USPS, GEOID, NAME of the
   rows whose GEOID is seven digits] *)
parse_gazetteer_file(file) ==
    LET columns == [i \in 1..Len(file.columns) |-> clean_column(file.columns[i])]
        missing == RequiredColumns \ {columns[i] : i \in 1..Len(columns)}
    IN  IF missing # {} THEN [raised |-> TRUE, rows |-> <<>>]
        ELSE LET df == [k \in 1..Len(file.rows) |->
                          [USPS |-> file.rows[k][ColumnAt(columns, <<"USPS">>)],
                           GEOID |-> file.rows[k][ColumnAt(columns, <<"GEOID">>)],
                           NAME |-> file.rows[k][ColumnAt(columns, <<"NAME">>)]]]
                 kept == SelectIdx([k \in 1..Len(df) |-> keep_geoid(df[k].GEOID)])
             IN  [raised |-> FALSE, rows |-> [k \in 1..Len(kept) |-> df[kept[k]]]]

-----------------------------------------------------------------------------
(* build *)

Url(year, state_fips) == <<"www2.census.gov", year, state_fips>>

Dest(year, state_fips) == <<"workdir", year, state_fips>>

OutPath == "fips_place_lookup.csv"

(* df.rename(...).merge(state_codes[["state_abbr", "state_name"]],
   on="state_abbr", how="left", validate="m:1"): raised when an abbreviation
   is twice in state_codes; a record whose abbreviation is not there gets no
   state name, which to_csv writes as an empty cell *)
merge_state_name(df, state_codes) ==
    LET unique == \A i, j \in 1..Len(state_codes) :
                      state_codes[i].state_abbr = state_codes[j].state_abbr => i = j
        name(abbr) ==
            LET hits == {i \in 1..Len(state_codes) : state_codes[i].state_abbr = abbr}
            IN  IF hits = {} THEN "" ELSE state_codes[CHOOSE i \in hits : TRUE].state_name
    IN  [raised |-> ~unique,
         rows |-> [k \in 1..Len(df) |->
                      [fips |-> df[k].GEOID, place_name |-> df[k].NAME,
                       state_abbr |-> df[k].USPS, state_name |-> name(df[k].USPS)]]]

\* variant: drop_duplicates(keep="last")
RECURSIVE drop_duplicates_last(_)
drop_duplicates_last(df) ==
    IF df = <<>> THEN <<>>
    ELSE LET rest == drop_duplicates_last(Tail(df))
         IN  IF \E i \in 1..Len(rest) : rest[i].fips = Head(df).fips
             THEN rest ELSE <<Head(df)>> \o rest

RECURSIVE drop_duplicates(_)
(* DataFrame.drop_duplicates(subset=["fips"]): the first row of each fips stays *)
drop_duplicates(df) ==
    IF df = <<>> THEN <<>>
    ELSE LET init == drop_duplicates(SubSeq(df, 1, Len(df) - 1))
             last == df[Len(df)]
         IN  IF \E i \in 1..Len(init) : init[i].fips = last.fips
             THEN init ELSE Append(init, last)

RECURSIVE concat(_)
(* pd.concat(rows, ignore_index=True) *)
concat(frames) ==
    IF frames = <<>> THEN <<>> ELSE Head(frames) \o concat(Tail(frames))

make_lookup(frames) == sort_values(drop_duplicates(concat(frames)), "fips")

NoHash == [some |-> FALSE, h |-> sha256_file(Absent)]

SomeHash(h) == [some |-> TRUE, h |-> h]

(* sha256_file(out) if commit_guard and out.exists() else None *)
old_hash_of(commit_guard, out_file) ==
    IF commit_guard /\ out_file.exists THEN SomeHash(sha256_file(out_file)) ELSE NoHash

\* variant: signals without comparing the hashes
exit_code_nocompare(commit_guard, old_hash, new_hash) ==
    IF commit_guard /\ old_hash.some THEN 1 ELSE 0

\* variant: compares even when there was no output file
exit_code_noold(commit_guard, old_hash, new_hash) ==
    IF commit_guard /\ new_hash # old_hash.h THEN 1 ELSE 0

(* if commit_guard and old_hash and sha256_file(out) != old_hash: Exit(1) *)
exit_code(commit_guard, old_hash, new_hash) ==
    IF commit_guard /\ old_hash.some /\ new_hash # old_hash.h THEN 1 ELSE 0

\* exit statuses of a run ended by an exception: typer.BadParameter is a usage
\* error, anything else an uncaught exception
ExitUsage == 2

ExitException == 1

RECURSIVE fetch_loop(_, _, _, _)
(* the loop over state_codes: fetch, cache, hash, parse, merge.  acc holds the
   cache directory, the manifest inputs, the frames and whether and how the
   loop raised *)
fetch_loop(state_codes, i, year, acc) ==
    IF i > Len(state_codes) \/ acc.raised THEN acc
    ELSE LET state_fips == state_codes[i].state_fips
             url == Url(year, state_fips)
             dest == Dest(year, state_fips)
             df_raw == remote[url]
         IN  IF ~df_raw.ok
             THEN [acc EXCEPT !.raised = TRUE, !.exit = ExitException]
             ELSE LET cached == [acc.cache EXCEPT ![dest] = df_raw]
                      inputs == Append(acc.inputs,
                                    [url |-> url, path |-> dest,
                                     sha256 |-> sha256_file(cached[dest])])
                      parsed == parse_gazetteer_file(cached[dest])
                      merged == merge_state_name(parsed.rows, state_codes)
                  IN  IF parsed.raised
                      THEN [acc EXCEPT !.cache = cached, !.inputs = inputs,
                                       !.raised = TRUE, !.exit = ExitUsage]
                      ELSE IF merged.raised
                      THEN [acc EXCEPT !.cache = cached, !.inputs = inputs,
                                       !.raised = TRUE, !.exit = ExitException]
                      ELSE fetch_loop(state_codes, i + 1, year,
                               [acc EXCEPT !.cache = cached, !.inputs = inputs,
                                           !.parsed = Append(@, parsed.rows),
                                           !.rows = Append(@, merged.rows)])

\* variant: writes the frames gathered so far when the loop raises
written_partial(old_file, frames) == CsvFile(make_lookup(frames))

(* what a run that raised leaves in the output file: build writes nothing
   before the loop has finished *)
written_on_raise(old_file, frames) == old_file

make_manifest(year, inputs, out_file) ==
    [exists |-> TRUE,
     source |-> [type |-> "census_gazetteer_places", year |-> year],
     inputs |-> inputs,
     output |-> [path |-> OutPath, sha256 |-> sha256_file(out_file),
                 row_count |-> Len(out_file.rows)]]

NoManifest ==
    [exists |-> FALSE,
     source |-> [type |-> "", year |-> 0],
     inputs |-> <<>>,
     output |-> [path |-> "", sha256 |-> sha256_file(Absent), row_count |-> 0]]

-----------------------------------------------------------------------------
(* Idle values of the variable groups a specification does not use *)

NoResult == <<"none">>

NormIdle == x = <<>> /\ result = NoResult
DataIdle == files = <<>> /\ lookup = <<>> /\ lastFix = <<>> /\ report = <<>>
BuildIdle == remote = <<>> /\ cache = <<>> /\ out = <<>> /\ manifest = <<>>
             /\ run = <<>> /\ prev = <<>>

-----------------------------------------------------------------------------
(* NormSpec: normalize_fips_7 applied to every string within the bounds *)

NormInit ==
    /\ x \in SeqsUpTo(Alphabet, MaxLen)
    /\ result = NoResult
    /\ DataIdle
    /\ BuildIdle

Normalize ==
    /\ result = NoResult
    /\ result' = <<"ok", normalize_fips_7(x)>>
    /\ UNCHANGED <<x, dataVars, buildVars>>

NormNext == Normalize

NormSpec == NormInit /\ [][NormNext]_vars

Returned == result[1] = "ok"

\* s with zeros on the left up to n characters, written position by position
LeftPadded(s, n) ==
    [i \in 1..n |-> IF i <= n - Len(s) THEN "0" ELSE s[i - (n - Len(s))]]

\* every character is a digit (true of the empty string)
SolelyDigits(s) == \A i \in 1..Len(s) : s[i] \in Digits

-----------------------------------------------------------------------------
(* DataSpec: fix and validate run, in any order, on a dataset CSV *)

Paths == {"dataset.csv", "fixed.csv"}

CountryValues == {<<"u", "s">>, <<"C", "A">>}

DatasetRow(country, state, code, city) ==
    [country |-> country, state |-> state, code |-> code, city |-> city]

\* rows a dataset is made of: a valid code, a 6-digit code that pads to it, a
\* code of another state, a code with a letter under a state the registry does
\* not know, and a 6-digit code of another country
DatasetRowPool ==
    { DatasetRow(<<"U", "s">>, "AL", <<"0", "1", "0", "1", "8", "5", "2">>, "Abbeville"),
      DatasetRow(<<"U", "s">>, "AL", <<"1", "0", "1", "8", "5", "2">>, "Abbeville"),
      DatasetRow(<<"U", "s">>, "AL", <<"7", "2", "0", "0", "1", "0", "0">>, "Adjuntas"),
      DatasetRow(<<"U", "s">>, "XX", <<"0", "1", "A", "1", "8", "5", "2">>, "Nowhere"),
      DatasetRow(<<"C", "a">>, "AL", <<"1", "0", "1", "8", "5", "2">>, "Calgary") }

LookupRow(fips) ==
    [fips |-> fips, place_name |-> "place", state_abbr |-> "AL", state_name |-> "Alabama"]

\* lookup CSVs handed to validate: empty, one place, two places, and a
\* hand-edited table that lists one place twice
LookupTables ==
    { <<>>,
      << LookupRow(<<"0", "1", "0", "1", "8", "5", "2">>) >>,
      << LookupRow(<<"0", "1", "0", "1", "8", "5", "2">>),
         LookupRow(<<"7", "2", "0", "0", "1", "0", "0">>) >>,
      << LookupRow(<<"0", "1", "0", "1", "8", "5", "2">>),
         LookupRow(<<"0", "1", "0", "1", "8", "5", "2">>) >> }

NoFix == [valid |-> FALSE, dataset_csv |-> "", out |-> "", country_value |-> <<>>,
          before |-> <<>>, changed |-> 0, exit |-> 0]

NoReport == [valid |-> FALSE, dataset_csv |-> "", country_value |-> <<>>,
             total |-> 0, found |-> 0, table |-> <<>>, exit |-> 0]

DataInit ==
    /\ \E rows \in SeqsUpTo(DatasetRowPool, MaxRows) :
          files = [p \in Paths |-> IF p = "dataset.csv" THEN CsvFile(rows) ELSE Absent]
    /\ \E rows \in LookupTables : lookup = CsvFile(rows)
    /\ lastFix = NoFix
    /\ report = NoReport
    /\ NormIdle
    /\ BuildIdle

Fix(dataset_csv, out_path, country_value) ==
    /\ files[dataset_csv].exists
    /\ \E df \in {read_dataset(files[dataset_csv])} :
       \E fixed \in {fix_rows(df, country_value)} :
           /\ files' = fix_write(files, dataset_csv, out_path, fixed)
           /\ lastFix' = [valid |-> TRUE, dataset_csv |-> dataset_csv, out |-> out_path,
                          country_value |-> country_value, before |-> df,
                          changed |-> fix_changed(df, fixed, country_value),
                          exit |-> 0]
    /\ report' = NoReport
    /\ UNCHANGED <<lookup, normVars, buildVars>>

Validate(dataset_csv, country_value) ==
    /\ files[dataset_csv].exists
    /\ \E v \in {validate(files[dataset_csv], lookup, country_value)} :
           report' = [valid |-> TRUE, dataset_csv |-> dataset_csv,
                      country_value |-> country_value, total |-> v.total,
                      found |-> v.found, table |-> v.table, exit |-> v.exit]
    /\ UNCHANGED <<files, lookup, lastFix, normVars, buildVars>>

DataNext ==
    \/ \E d \in Paths, o \in Paths, c \in CountryValues : Fix(d, o, c)
    \/ \E d \in Paths, c \in CountryValues : Validate(d, c)

DataSpec == DataInit /\ [][DataNext]_vars

-----------------------------------------------------------------------------
(* The words of the validator's contract, stated without the code's operators *)

CasePairs == {{"a", "A"}, {"c", "C"}, {"s", "S"}, {"u", "U"}}

SameLetter(c, d) == c = d \/ {c, d} \in CasePairs

CaseInsensitiveEq(s, t) ==
    Len(s) = Len(t) /\ \A i \in 1..Len(s) : SameLetter(s[i], t[i])

Selected(row, country_value) == CaseInsensitiveEq(row.country, country_value)

LengthOk(code) == Len(code) = 7 /\ SolelyDigits(code)

RegistryPrefix(state) ==
    IF state = "AL" THEN <<"0", "1">>
    ELSE IF state = "GU" THEN <<"6", "6">>
    ELSE IF state = "PR" THEN <<"7", "2">>
    ELSE <<>>

PrefixOk(row) ==
    RegistryPrefix(row.state) = [i \in 1..(IF Len(row.code) < 2 THEN Len(row.code) ELSE 2) |-> row.code[i]]

KnownPlace(code, table) == \E j \in 1..Len(table.rows) : table.rows[j].fips = code

Erroneous(row, table) ==
    ~LengthOk(row.code) \/ ~PrefixOk(row) \/ ~KnownPlace(row.code, table)

\* the dataset validate last reported on (fix clears the report, so the file
\* still holds what validate read)
Validated == files[report.dataset_csv].rows

\* how often dataset row i appears in the error table
TimesReported(i) ==
    Cardinality({k \in 1..Len(report.table) : report.table[k].idx = i})

UniqueKeys(table) ==
    \A j, k \in 1..Len(table.rows) :
        table.rows[j].fips = table.rows[k].fips => j = k

\* C1: a selected row is in the error table exactly when one of its three
\* predicates is false, and validate exits 1 exactly when there is such a row,
\* otherwise 0.
C1_ErroneousIffPredicateFalse ==
    report.valid =>
        /\ \A i \in 1..Len(Validated) :
              Selected(Validated[i], report.country_value) =>
                  (TimesReported(i) > 0 <=> Erroneous(Validated[i], lookup))
        /\ report.exit = 1 <=>
              \E i \in 1..Len(Validated) :
                  /\ Selected(Validated[i], report.country_value)
                  /\ Erroneous(Validated[i], lookup)
        /\ report.exit \in {0, 1}

C1_Witness ==
    /\ report.valid
    /\ report.exit = 1
    /\ \E i, j \in 1..Len(Validated) :
          /\ Selected(Validated[i], report.country_value)
          /\ Selected(Validated[j], report.country_value)
          /\ TimesReported(i) > 0
          /\ TimesReported(j) = 0
          /\ LengthOk(Validated[i].code) /\ KnownPlace(Validated[i].code, lookup)

CountsRight ==
    /\ report.total =
          Cardinality({i \in 1..Len(Validated) :
                          Selected(Validated[i], report.country_value)})
    /\ report.found =
          Cardinality({i \in 1..Len(Validated) :
                          /\ Selected(Validated[i], report.country_value)
                          /\ Erroneous(Validated[i], lookup)})
    /\ \A i \in 1..Len(Validated) :
          TimesReported(i) =
              IF /\ Selected(Validated[i], report.country_value)
                 /\ Erroneous(Validated[i], lookup)
              THEN 1 ELSE 0
    /\ Len(report.table) = report.found

C3_Original ==
    lastFix.valid => files[lastFix.dataset_csv] = CsvFile(lastFix.before)

\* C3 amended: after fix with an out path other than the input path, the input
\* dataset file holds what it held before the run.
C3_InputKeptWhenOutDiffers ==
    (lastFix.valid /\ lastFix.out # lastFix.dataset_csv) =>
        files[lastFix.dataset_csv] = CsvFile(lastFix.before)

C3_Witness ==
    /\ lastFix.valid
    /\ lastFix.out # lastFix.dataset_csv
    /\ lastFix.changed > 0
    /\ files[lastFix.out] # files[lastFix.dataset_csv]

SixDigits(code) == Len(code) = 6 /\ SolelyDigits(code)

\* C8: validate reports a selected row with a 6-digit code as erroneous with
\* length_ok false; validate run on the output of fix (same country label)
\* reports length_ok true for that row, and does not report it at all when the
\* padded code is in the lookup table and has the state's prefix.
C8_SixDigitFixedThenValid ==
    /\ report.valid =>
          \A i \in 1..Len(Validated) :
              (Selected(Validated[i], report.country_value) /\ SixDigits(Validated[i].code)) =>
                  /\ TimesReported(i) > 0
                  /\ \A k \in 1..Len(report.table) :
                        report.table[k].idx = i => ~report.table[k].valid_len
    /\ (report.valid /\ lastFix.valid /\ report.dataset_csv = lastFix.out
            /\ report.country_value = lastFix.country_value) =>
          \A i \in 1..Len(lastFix.before) :
              LET row == lastFix.before[i]
                  padded == LeftPadded(row.code, 7)
              IN  (Selected(row, lastFix.country_value) /\ SixDigits(row.code)) =>
                      /\ \A k \in 1..Len(report.table) :
                            report.table[k].idx = i => report.table[k].valid_len
                      /\ (KnownPlace(padded, lookup)
                            /\ PrefixOk([row EXCEPT !.code = padded])) =>
                              TimesReported(i) = 0

C8_Witness ==
    /\ report.valid /\ lastFix.valid
    /\ report.dataset_csv = lastFix.out
    /\ report.country_value = lastFix.country_value
    /\ lastFix.out # lastFix.dataset_csv
    /\ \E i \in 1..Len(lastFix.before) :
          /\ Selected(lastFix.before[i], lastFix.country_value)
          /\ SixDigits(lastFix.before[i].code)
          /\ KnownPlace(LeftPadded(lastFix.before[i].code, 7), lookup)
          /\ PrefixOk([lastFix.before[i] EXCEPT !.code = LeftPadded(@, 7)])
          /\ TimesReported(i) = 0

-----------------------------------------------------------------------------
(* BuildSpec: build run repeatedly against a fixed remote *)

Years == {2024}

GazRow(usps, geoid, name) == <<usps, geoid, name>>

Abbeville == GazRow("AL", <<"0", "1", "0", "1", "8", "5", "2">>, "Abbeville")

\* the same GEOID under another place and state
Other == GazRow("PR", <<"0", "1", "0", "1", "8", "5", "2">>, "Other")

\* a GEOID of seven characters that are not all digits
Bad == GazRow("AL", <<"0", "1", "A", "1", "8", "5", "2">>, "Bad")

\* a smaller GEOID, under a state the registry does not list
Austin == GazRow("TX", <<"0", "0", "4", "8", "0", "5", "0">>, "Austin")

\* the header of a Gazetteer file: a byte-order mark before the first name,
\* blanks after the last
GazHeader == << <<BOM, "USPS">>, <<"GEOID">>, <<"NAME", Blank, Blank>> >>

GazFile(rows) == [ok |-> TRUE, columns |-> GazHeader, rows |-> rows]

\* a file without the NAME column
NoNameFile ==
    [ok |-> TRUE, columns |-> << <<"USPS">>, <<"GEOID">> >>,
     rows |-> << <<"AL", <<"0", "1", "0", "1", "8", "5", "2">>>> >>]

\* a URL that cannot be fetched, and a path with no file
NoFile == [ok |-> FALSE, columns |-> <<>>, rows |-> <<>>]

GazetteerFiles ==
    { GazFile(<<>>), GazFile(<<Abbeville>>), GazFile(<<Other>>), GazFile(<<Bad, Abbeville>>),
      GazFile(<<Austin>>), GazFile(<<Abbeville, Austin>>), GazFile(<<Abbeville, Other>>),
      NoNameFile, NoFile }

AllFips == {zfill(USAll[i].fips, 2) : i \in 1..Len(USAll)}

Urls == {Url(y, f) : y \in Years, f \in AllFips}

Dests == {Dest(y, f) : y \in Years, f \in AllFips}

\* a lookup table published before the first build of the behaviour
StaleLookup ==
    << [fips |-> <<"0", "1", "0", "1", "8", "5", "2">>, place_name |-> "Abbeville",
        state_abbr |-> "AL", state_name |-> "Alabama"] >>

NoRun ==
    [valid |-> FALSE, year |-> 0, include_pr |-> FALSE, include_territories |-> FALSE,
     commit_guard |-> FALSE, status |-> "", exit |-> 0, out_before |-> Absent,
     manifest_before |-> NoManifest, parsed |-> <<>>]

NoPrev ==
    [valid |-> FALSE, year |-> 0, include_pr |-> FALSE, include_territories |-> FALSE,
     sha256 |-> sha256_file(Absent)]

BuildInit ==
    /\ remote \in [Urls -> GazetteerFiles]
    /\ cache = [d \in Dests |-> NoFile]
    /\ out \in {Absent, CsvFile(StaleLookup)}
    /\ manifest = NoManifest
    /\ run = NoRun
    /\ prev = NoPrev
    /\ NormIdle
    /\ DataIdle

Build(year, include_pr, include_territories, commit_guard) ==
    \E state_codes \in {build_state_code_table(include_pr, include_territories)} :
    \E acc \in {fetch_loop(state_codes, 1, year,
                   [cache |-> cache, inputs |-> <<>>, parsed |-> <<>>, rows |-> <<>>,
                    raised |-> FALSE, exit |-> 0])} :
    \E lookup_file \in {CsvFile(make_lookup(acc.rows))} :
    LET old_hash == old_hash_of(commit_guard, out)
        this == [valid |-> TRUE, year |-> year, include_pr |-> include_pr,
                 include_territories |-> include_territories,
                 commit_guard |-> commit_guard, status |-> "", exit |-> 0,
                 out_before |-> out, manifest_before |-> manifest,
                 parsed |-> acc.parsed]
    IN  /\ cache' = acc.cache
        /\ IF acc.raised
           THEN /\ out' = written_on_raise(out, acc.rows)
                /\ manifest' = manifest
                /\ run' = [this EXCEPT !.status = "aborted", !.exit = acc.exit]
           ELSE /\ out' = lookup_file
                /\ manifest' = make_manifest(year, acc.inputs, lookup_file)
                /\ run' = [this EXCEPT !.status = "completed",
                              !.exit = exit_code(commit_guard, old_hash,
                                                 sha256_file(lookup_file))]
        /\ prev' = IF run.valid /\ run.status = "completed"
                   THEN [valid |-> TRUE, year |-> run.year, include_pr |-> run.include_pr,
                         include_territories |-> run.include_territories,
                         sha256 |-> sha256_file(out)]
                   ELSE prev
        /\ UNCHANGED <<remote, normVars, dataVars>>

BuildNext ==
    \E y \in Years, pr \in BOOLEAN, terr \in BOOLEAN, guard \in BOOLEAN :
        Build(y, pr, terr, guard)

BuildSpec == BuildInit /\ [][BuildNext]_vars

-----------------------------------------------------------------------------
(* The words of the builder's contract, stated without the code's operators *)

Completed == run.valid /\ run.status = "completed"

Aborted == run.valid /\ run.status = "aborted"

\* the FIPS prefixes a run iterates over, in iteration order
SourcesOf(include_pr, include_territories) ==
    << <<"0", "1">> >>
    \o (IF include_territories THEN << <<"6", "6">> >> ELSE <<>>)
    \o (IF include_pr THEN << <<"7", "2">> >> ELSE <<>>)

\* the state name the registry of a run has for an abbreviation
RegistryName(abbr, include_pr, include_territories) ==
    IF abbr = "AL" THEN "Alabama"
    ELSE IF abbr = "GU" /\ include_territories THEN "Guam"
    ELSE IF abbr = "PR" /\ include_pr THEN "Puerto Rico"
    ELSE ""

RunSources == SourcesOf(run.include_pr, run.include_territories)

\* the file served to the latest run for its a-th source
Served(a) == remote[Url(run.year, RunSources[a])]

\* <<a, k>>: row k of the a-th source carries a 7-digit identifier
Occurrences ==
    UNION { { <<a, k>> : k \in {n \in 1..Len(Served(a).rows) :
                                  LengthOk(Served(a).rows[n][2])} } :
            a \in 1..Len(RunSources) }

GeoIdAt(o) == Served(o[1]).rows[o[2]][2]

Earlier(o, q) == o[1] < q[1] \/ (o[1] = q[1] /\ o[2] < q[2])

FirstOf(g) ==
    CHOOSE o \in Occurrences :
        /\ GeoIdAt(o) = g
        /\ \A q \in Occurrences : GeoIdAt(q) = g => (q = o \/ Earlier(o, q))

DigitValue(c) == CHOOSE n \in 0..9 : <<"0", "1", "2", "3", "4", "5", "6", "7", "8", "9">>[n + 1] = c

RECURSIVE Number(_)
Number(s) == IF s = <<>> THEN 0 ELSE 10 * Number(SubSeq(s, 1, Len(s) - 1)) + DigitValue(s[Len(s)])

\* C4: the lookup table a completed build wrote has one row per geo_id, is in
\* ascending geo_id order, holds every geo_id that was parsed and no other, and
\* the row of a geo_id carries the place name, state abbreviation and state
\* name of its first occurrence in state-iteration order.
C4_UniqueSortedFirstWins ==
    Completed =>
        /\ \A i, j \in 1..Len(out.rows) : out.rows[i].fips = out.rows[j].fips => i = j
        /\ \A i, j \in 1..Len(out.rows) :
              i < j => Number(out.rows[i].fips) < Number(out.rows[j].fips)
        /\ \A i \in 1..Len(out.rows) : \E o \in Occurrences : GeoIdAt(o) = out.rows[i].fips
        /\ \A o \in Occurrences :
              \E i \in 1..Len(out.rows) :
                  LET first == Served(FirstOf(GeoIdAt(o))[1]).rows[FirstOf(GeoIdAt(o))[2]]
                  IN  out.rows[i] =
                          [fips |-> GeoIdAt(o), place_name |-> first[3],
                           state_abbr |-> first[1],
                           state_name |-> RegistryName(first[1], run.include_pr,
                                                       run.include_territories)]

C4_Witness ==
    /\ Completed
    /\ Len(out.rows) = 2
    /\ out.rows[2].place_name = "Other"
    /\ \E o \in Occurrences : GeoIdAt(o) = out.rows[2].fips /\ o # FirstOf(GeoIdAt(o))
    /\ \E o, q \in Occurrences : Earlier(o, q) /\ Number(GeoIdAt(q)) < Number(GeoIdAt(o))

\* C5: a build that completes exits 1 exactly when commit_guard is set, the
\* output file existed before the run and the hash of the output written
\* differs from the hash it had before; otherwise it exits 0.  When it exits 1
\* the new lookup table and its manifest are on disk.
C5_GuardExit ==
    Completed =>
        /\ run.exit = 1 <=>
              /\ run.commit_guard
              /\ run.out_before.exists
              /\ sha256_file(out) # sha256_file(run.out_before)
        /\ run.exit \in {0, 1}
        /\ run.exit = 1 =>
              /\ out.exists /\ out # run.out_before
              /\ manifest.exists
              /\ manifest.source.year = run.year
              /\ manifest.output.sha256 = sha256_file(out)
              /\ manifest.output.row_count = Len(out.rows)

C5_Witness ==
    /\ Completed
    /\ run.exit = 1
    /\ run.commit_guard
    /\ run.out_before.exists
    /\ run.manifest_before.exists
    /\ manifest # run.manifest_before
    /\ Len(out.rows) > 0

\* C6: a build that completes with commit_guard set, after a completed build
\* with the same year and flags against the same remote files, leaves the
\* output hash of that earlier build and exits 0.
C6_RebuildNoDrift ==
    (/\ Completed /\ run.commit_guard /\ prev.valid
     /\ prev.year = run.year /\ prev.include_pr = run.include_pr
     /\ prev.include_territories = run.include_territories) =>
        /\ sha256_file(out) = prev.sha256
        /\ run.exit = 0

C6_Witness ==
    /\ Completed /\ run.commit_guard /\ prev.valid
    /\ prev.year = run.year /\ prev.include_pr = run.include_pr
    /\ prev.include_territories = run.include_territories
    /\ run.include_pr /\ run.include_territories
    /\ run.out_before.exists
    /\ Len(out.rows) = 2
    /\ run.exit = 0

\* C7: a build in which a fetch or a parse fails (a missing required column
\* included) leaves the lookup table file and the manifest file as they were
\* before the run, however many states it had processed.
C7_AbortWritesNothing ==
    Aborted => (out = run.out_before /\ manifest = run.manifest_before)

C7_Witness ==
    /\ Aborted
    /\ run.exit = ExitUsage
    /\ Len(run.parsed) = 2
    /\ Len(run.parsed[1]) > 0
    /\ out.exists
    /\ manifest.exists
    /\ out.rows # run.parsed[1]

\* the rows of a cached Gazetteer file as USPS, GEOID, NAME records
CachedRecords(a) ==
    LET file == cache[Dest(run.year, RunSources[a])]
    IN  [k \in 1..Len(file.rows) |->
            [USPS |-> file.rows[k][1], GEOID |-> file.rows[k][2], NAME |-> file.rows[k][3]]]

HasSevenDigits(rec) == LengthOk(rec.GEOID)

\* C9: parse_gazetteer_file returns exactly the rows whose identifier is seven
\* digits, in the order of the file, and every geo_id of a lookup table that
\* build wrote is seven digits.
C9_ParseKeepsSevenDigits ==
    /\ run.valid =>
          \A a \in 1..Len(run.parsed) :
              run.parsed[a] = SelectSeq(CachedRecords(a), HasSevenDigits)
    /\ Completed => \A i \in 1..Len(out.rows) : LengthOk(out.rows[i].fips)

C9_Witness ==
    /\ Completed
    /\ Len(out.rows) > 0
    /\ \E a \in 1..Len(run.parsed) :
          /\ Len(CachedRecords(a)) = 2
          /\ ~HasSevenDigits(CachedRecords(a)[1])
          /\ Len(run.parsed[a]) = 1
    /\ \E a \in 1..Len(run.parsed) :
          /\ Len(run.parsed[a]) = 2
          /\ Number(run.parsed[a][2].GEOID) < Number(run.parsed[a][1].GEOID)

====
